---- MODULE Spec2Model ----
(***************************************************************************)
(* Model of the ESP32 fingerprint command dispatcher (src/sensor.c):       *)
(* setup(), loop(), enrollFinger(), getFingerprintID(),                    *)
(* deleteFingerprint() and sendSerialResponse(), together with the serial  *)
(* receive buffer the host writes into and the Adafruit sensor object the  *)
(* handlers call.                                                          *)
(*                                                                         *)
(* The program is one thread.  Its position is pc; one action is one step  *)
(* of that thread between two points where the outside world can be seen   *)
(* to act: a byte arriving in the receive buffer, or the sensor answering  *)
(* a request.  The sensor's answers are chosen nondeterministically; under *)
(* StoreSpec they are those of a sensor that keeps its templates.          *)
(*                                                                         *)
(* Text is a sequence of units.  A response line is written character by   *)
(* character (one-character strings); a diagnostic line is one unit.       *)
(***************************************************************************)
EXTENDS Integers, Sequences, FiniteSets, TLC

VARIABLES
    pc,            \* position of the single thread of control
    command,       \* loop(): char command
    id,            \* loop(): int id
    result,        \* loop(): int result
    p,             \* enrollFinger()/getFingerprintID(): int p
    value,         \* Stream::parseInt(): long value
    isNegative,    \* Stream::parseInt(): bool isNegative
    rx,            \* Serial receive buffer (bytes written by the host, unread)
    tx,            \* Serial output since the current command was read:
                   \*   line = the unterminated current line,
                   \*   out  = the completed lines,
                   \*   resp = the sendSerialResponse calls made
    finger,        \* the Adafruit_Fingerprint object's public fields
    calls,         \* sensor requests made since the current command was read
    polls,         \* retries recorded so far in the current wait loop
    pending,       \* bytes of the host's current line not yet arrived
    hostLine,      \* the host's last line: "none" (nothing written yet),
                   \* "overlapped" (written while the device was not at
                   \* rest), or else its command character
    nCmds,         \* commands read by loop() since a line was written to
                   \* the device at rest
    nReady,        \* "Ready for next command" responses since then
    sensor,        \* the sensor module: whether it is taken to keep a template
                   \* store, and the slots that hold a template of the finger
    trip           \* how far the host has come in the round trip Enroll(5),
                   \* Delete(5), Verify (kept by the host that takes turns)

vars == <<pc, command, id, result, p, value, isNegative, rx, tx, finger,
          calls, polls, pending, hostLine, nCmds, nReady, sensor, trip>>

(***************************************************************************)
(* Bounds of the model.                                                    *)
(***************************************************************************)
MaxRx == 1         \* the host writes a line while at most MaxRx bytes are unread
MaxPolls == 1      \* retried polls of one wait loop that are recorded

(***************************************************************************)
(* Protocol constants.                                                     *)
(***************************************************************************)
CMD_ENROLL   == "E"
CMD_VERIFY   == "V"
CMD_DELETE   == "D"
CMD_COUNT    == "C"
CMD_RESPONSE == "R"
CMD_SUCCESS  == "S"
CMD_FAILURE  == "F"
CMD_READY    == "Y"

MinId == 1
MaxId == 127

NL == "\n"
NoCmd == "none"    \* no command has been read yet

(***************************************************************************)
(* Status codes of the sensor library that the program looks at, and one   *)
(* representative error code per request.                                  *)
(***************************************************************************)
NoStatus                     == "none"   \* int p = -1: no status code
FINGERPRINT_OK               == "OK"
FINGERPRINT_NOFINGER         == "NOFINGER"
FINGERPRINT_PACKETRECIEVEERR == "PACKETRECIEVEERR"
FINGERPRINT_IMAGEFAIL        == "IMAGEFAIL"
FINGERPRINT_IMAGEMESS        == "IMAGEMESS"
FINGERPRINT_ENROLLMISMATCH   == "ENROLLMISMATCH"
FINGERPRINT_BADLOCATION      == "BADLOCATION"
FINGERPRINT_NOTFOUND         == "NOTFOUND"
FINGERPRINT_DELETEFAIL       == "DELETEFAIL"

GetImageResults      == {FINGERPRINT_OK, FINGERPRINT_NOFINGER, FINGERPRINT_IMAGEFAIL}
Image2TzResults      == {FINGERPRINT_OK, FINGERPRINT_IMAGEMESS}
CreateModelResults   == {FINGERPRINT_OK, FINGERPRINT_ENROLLMISMATCH}
StoreModelResults    == {FINGERPRINT_OK, FINGERPRINT_BADLOCATION}
FingerSearchResults  == {FINGERPRINT_OK, FINGERPRINT_NOTFOUND}
DeleteModelResults   == {FINGERPRINT_OK, FINGERPRINT_DELETEFAIL}
TemplateCountResults == {FINGERPRINT_OK, FINGERPRINT_PACKETRECIEVEERR}

\* (fingerID, confidence) pairs a search reply can carry
SearchReplies == {<<0, 0>>, <<5, 90>>}
\* template counts a count reply can carry
CountReplies == {0, 3}

(***************************************************************************)
(* Text.                                                                   *)
(***************************************************************************)
Digits == <<"0", "1", "2", "3", "4", "5", "6", "7", "8", "9">>

IsDigit(c) == \E i \in 1..10 : Digits[i] = c

DigitVal(c) == (CHOOSE i \in 1..10 : Digits[i] = c) - 1

\* Print::print(int): the decimal digits of n, with a sign when negative
RECURSIVE DecNat(_)
DecNat(n) == IF n < 10 THEN <<Digits[n + 1]>>
             ELSE DecNat(n \div 10) \o <<Digits[(n % 10) + 1]>>

Dec(n) == IF n < 0 THEN <<"-">> \o DecNat(-n) ELSE DecNat(n)

MsgSystemReady == <<"F","i","n","g","e","r","p","r","i","n","t"," ",
                    "s","y","s","t","e","m"," ","r","e","a","d","y">>
MsgReady == <<"R","e","a","d","y"," ","f","o","r"," ","n","e","x","t"," ",
              "c","o","m","m","a","n","d">>
MsgInvalidId == <<"I","n","v","a","l","i","d"," ","I","D","."," ","M","u","s","t"," ",
                  "b","e"," ","b","e","t","w","e","e","n"," ","1","-","1","2","7">>
MsgMatched == <<"F","i","n","g","e","r","p","r","i","n","t"," ",
                "m","a","t","c","h","e","d">>
MsgNoMatch == <<"N","o"," ","m","a","t","c","h"," ","f","o","u","n","d">>
MsgTemplateCount == <<"T","e","m","p","l","a","t","e"," ","c","o","u","n","t">>
MsgUnknown == <<"U","n","k","n","o","w","n"," ","c","o","m","m","a","n","d">>
MsgErrImage == <<"E","r","r","o","r"," ","t","a","k","i","n","g"," ",
                 "i","m","a","g","e">>
MsgErrConvert == <<"E","r","r","o","r"," ","c","o","n","v","e","r","t","i","n","g"," ",
                   "i","m","a","g","e">>
MsgErrCreate == <<"E","r","r","o","r"," ","c","r","e","a","t","i","n","g"," ",
                  "m","o","d","e","l">>
MsgErrStore == <<"E","r","r","o","r"," ","s","t","o","r","i","n","g"," ",
                 "m","o","d","e","l">>
MsgEnrolled == <<"F","i","n","g","e","r","p","r","i","n","t"," ",
                 "e","n","r","o","l","l","e","d"," ",
                 "s","u","c","c","e","s","s","f","u","l","l","y">>
MsgDeleted(i) == <<"D","e","l","e","t","e","d"," ",
                   "f","i","n","g","e","r","p","r","i","n","t"," ","I","D"," ","#">>
                 \o Dec(i)
MsgDeleteFailed(i) == <<"F","a","i","l","e","d"," ","t","o"," ",
                        "d","e","l","e","t","e"," ",
                        "f","i","n","g","e","r","p","r","i","n","t"," ","I","D"," ","#">>
                      \o Dec(i)

(***************************************************************************)
(* Serial output.                                                          *)
(***************************************************************************)
\* Serial.print(s): s joins the current line
SerialPrint(o, s) == [o EXCEPT !.line = @ \o s]

\* Serial.println(s): s joins the current line, which is then complete
SerialPrintln(o, s) == [o EXCEPT !.out = Append(@, o.line \o s), !.line = <<>>]

sendSerialResponse(o, responseType, rid, confidence, message) ==
    LET o1 == SerialPrint(o, <<CMD_RESPONSE>>)
        o2 == SerialPrint(o1, <<",">>)
        o3 == SerialPrint(o2, <<responseType>>)
        o4 == SerialPrint(o3, <<",">>)
        o5 == SerialPrint(o4, Dec(rid))
        o6 == SerialPrint(o5, <<",">>)
        o7 == SerialPrint(o6, Dec(confidence))
        o8 == SerialPrint(o7, <<",">>)
        o9 == SerialPrintln(o8, message)
    IN  [o9 EXCEPT !.resp = Append(@, [type |-> responseType, id |-> rid,
                                       confidence |-> confidence,
                                       message |-> message,
                                       line |-> Len(o9.out)])]

displayMenu(o) ==
    LET o1 == SerialPrintln(o, <<NL, "========== FINGERPRINT SYSTEM MENU ==========">>)
        o2 == SerialPrintln(o1, <<"Commands:">>)
        o3 == SerialPrintln(o2, <<"E[id] - Enroll New Fingerprint (id: 1-127)">>)
        o4 == SerialPrintln(o3, <<"V - Verify Fingerprint">>)
        o5 == SerialPrintln(o4, <<"D[id] - Delete Fingerprint (id: 1-127)">>)
        o6 == SerialPrintln(o5, <<"C - Get Template Count">>)
    IN  SerialPrintln(o6, <<"===========================================">>)

NoOutput == [line |-> <<>>, out |-> <<>>, resp |-> <<>>]

(***************************************************************************)
(* Sensor requests.                                                        *)
(***************************************************************************)
\* one request: where it was made, what was asked, the status returned and
\* the values the reply carried
Call(at, op, arg, res, val) ==
    [at |-> at, op |-> op, arg |-> arg, res |-> res, val |-> val]

(***************************************************************************)
(* The sensor module.  The program sees it only through the status codes   *)
(* and replies of its requests.  It is taken either to answer anything     *)
(* (AnySensor), or to keep one template per slot and to match the finger   *)
(* only against the templates it holds (StoringSensor); in both it may     *)
(* refuse or fail any request.  One finger is presented throughout.        *)
(***************************************************************************)
AnySensor == [stores |-> FALSE, templates |-> {}]

StoringSensor == [stores |-> TRUE, templates |-> {}]

\* storeModel(slot) answered res: the template is then in the slot
storeModel(s, slot, res) ==
    IF s.stores /\ res = FINGERPRINT_OK
    THEN [s EXCEPT !.templates = @ \cup {slot}]
    ELSE s

\* deleteModel(slot) answered res: the slot is then empty
deleteModel(s, slot, res) ==
    IF s.stores /\ res = FINGERPRINT_OK
    THEN [s EXCEPT !.templates = @ \ {slot}]
    ELSE s

\* fingerSearch() can answer res with reply: a match names a slot that holds
\* a template of the finger
fingerSearch(s, res, reply) ==
    (s.stores /\ res = FINGERPRINT_OK) => reply[1] \in s.templates

\* the counts a getTemplateCount() reply can carry
getTemplateCount(s) ==
    IF s.stores THEN {Cardinality(s.templates)} ELSE CountReplies

(***************************************************************************)
(* The host: it writes command lines (README, "Commands from Python to     *)
(* ESP32"), whose bytes reach the receive buffer one at a time.            *)
(***************************************************************************)
IdTexts == {<<>>, <<"0">>, <<"5">>, <<"1", "2", "7">>, <<"1", "2", "8">>}

HostLines == {<<c>> \o t \o <<NL>> : c \in {CMD_ENROLL, CMD_DELETE}, t \in IdTexts}
             \cup {<<CMD_VERIFY, NL>>, <<CMD_COUNT, NL>>, <<"Z", NL>>}

\* the device waits for input and nothing is buffered or in flight
AtRest == pc = "idle" /\ rx = <<>> /\ pending = <<>>

\* the last line was written while the device was at rest
Clean == hostLine \notin {"none", "overlapped"}

\* The host writes one more line.  The counts of commands and of Ready
\* responses start again with it; they are kept only for a line written
\* while the device was at rest.
HostSend ==
    /\ pending = <<>>
    /\ Len(rx) <= MaxRx
    /\ \E l \in HostLines :
         /\ pending' = l
         /\ hostLine' = IF AtRest THEN Head(l) ELSE "overlapped"
    /\ nCmds' = 0
    /\ nReady' = 0
    /\ UNCHANGED <<pc, command, id, result, p, value, isNegative, rx, tx, finger,
                   calls, polls>>
    /\ UNCHANGED <<sensor, trip>>

Arrive ==
    /\ pending # <<>>
    /\ rx' = Append(rx, Head(pending))
    /\ pending' = Tail(pending)
    /\ UNCHANGED <<pc, command, id, result, p, value, isNegative, tx, finger,
                   calls, polls, hostLine, nCmds, nReady>>
    /\ UNCHANGED <<sensor, trip>>

(***************************************************************************)
(* setup()                                                                 *)
(***************************************************************************)
\* the Ready response left out: only the menu is printed
Setup_M ==
    /\ pc = "setup"
    /\ \E verifyPassword \in BOOLEAN :
         IF verifyPassword
         THEN /\ tx' = displayMenu(
                           SerialPrintln(tx, <<"Fingerprint sensor detected!">>))
              /\ pc' = "idle"
         ELSE /\ tx' = SerialPrintln(tx, <<"Fingerprint sensor not found :(">>)
              /\ pc' = "halt"
    /\ UNCHANGED <<command, id, result, p, value, isNegative, rx, finger, calls,
                   polls, pending, hostLine, nCmds, nReady>>
    /\ UNCHANGED <<sensor, trip>>

Setup ==
    /\ pc = "setup"
    /\ \E verifyPassword \in BOOLEAN :
         IF verifyPassword
         THEN /\ tx' = displayMenu(sendSerialResponse(
                           SerialPrintln(tx, <<"Fingerprint sensor detected!">>),
                           CMD_READY, 0, 0, MsgSystemReady))
              /\ pc' = "idle"
         ELSE /\ tx' = SerialPrintln(tx, <<"Fingerprint sensor not found :(">>)
              /\ pc' = "halt"
    /\ UNCHANGED <<command, id, result, p, value, isNegative, rx, finger, calls,
                   polls, pending, hostLine, nCmds, nReady>>
    /\ UNCHANGED <<sensor, trip>>

(***************************************************************************)
(* loop(): read the command character and, for Enroll and Delete, the id   *)
(***************************************************************************)
NeedsId(c) == c = CMD_ENROLL \/ c = CMD_DELETE

\* id starts as 1 in place of -1: a command without an argument names slot 1
LoopRead_M ==
    /\ pc = "idle"
    /\ rx # <<>>
    /\ command' = Head(rx)
    /\ rx' = Tail(rx)
    /\ id' = 1
    /\ result' = -1
    /\ pc' = IF NeedsId(Head(rx)) THEN "delay100" ELSE "dispatch"
    /\ tx' = NoOutput
    /\ calls' = <<>>
    /\ polls' = 0
    /\ nCmds' = IF Clean THEN nCmds + 1 ELSE nCmds
    /\ UNCHANGED <<p, value, isNegative, finger, pending, hostLine, nReady>>
    /\ UNCHANGED <<sensor, trip>>

\* if (Serial.available()) { command = Serial.read(); id = -1; result = -1; ...
LoopRead ==
    /\ pc = "idle"
    /\ rx # <<>>
    /\ command' = Head(rx)
    /\ rx' = Tail(rx)
    /\ id' = -1
    /\ result' = -1
    /\ pc' = IF NeedsId(Head(rx)) THEN "delay100" ELSE "dispatch"
    /\ tx' = NoOutput
    /\ calls' = <<>>
    /\ polls' = 0
    /\ nCmds' = IF Clean THEN nCmds + 1 ELSE nCmds
    /\ UNCHANGED <<p, value, isNegative, finger, pending, hostLine, nReady>>
    /\ UNCHANGED <<sensor, trip>>

\* delay(100); if (Serial.available()) id = Serial.parseInt();
ArgWait ==
    /\ pc = "delay100"
    /\ IF rx # <<>>
       THEN /\ pc' = "parse_skip"
            /\ value' = 0
            /\ isNegative' = FALSE
       ELSE /\ pc' = "dispatch"
            /\ UNCHANGED <<value, isNegative>>
    /\ UNCHANGED <<command, id, result, p, rx, tx, finger, calls, polls, pending,
                   hostLine, nCmds, nReady>>
    /\ UNCHANGED <<sensor, trip>>

\* Stream::parseInt(), peekNextDigit(): discard bytes up to a digit or '-';
\* with the buffer empty the timed peek may run out, and parseInt returns 0
ParseSkip ==
    /\ pc = "parse_skip"
    /\ IF rx = <<>>
       THEN /\ id' = 0
            /\ pc' = "dispatch"
            /\ UNCHANGED rx
       ELSE IF IsDigit(Head(rx)) \/ Head(rx) = "-"
            THEN /\ pc' = "parse_num"
                 /\ UNCHANGED <<id, rx>>
            ELSE /\ rx' = Tail(rx)
                 /\ UNCHANGED <<id, pc>>
    /\ UNCHANGED <<command, result, p, value, isNegative, tx, finger, calls, polls,
                   pending, hostLine, nCmds, nReady>>
    /\ UNCHANGED <<sensor, trip>>

\* Stream::parseInt(), body of the do-while: take the byte that was peeked
ParseNum ==
    /\ pc = "parse_num"
    /\ IF Head(rx) = "-"
       THEN /\ isNegative' = TRUE
            /\ UNCHANGED value
       ELSE /\ value' = value * 10 + DigitVal(Head(rx))
            /\ UNCHANGED isNegative
    /\ rx' = Tail(rx)
    /\ pc' = "parse_peek"
    /\ UNCHANGED <<command, id, result, p, tx, finger, calls, polls, pending,
                   hostLine, nCmds, nReady>>
    /\ UNCHANGED <<sensor, trip>>

\* Stream::parseInt(), the loop test: go on while the next byte is a digit;
\* a byte that is none, or the timed peek running out, ends the number
ParsePeek ==
    /\ pc = "parse_peek"
    /\ IF rx # <<>> /\ IsDigit(Head(rx))
       THEN /\ pc' = "parse_num"
            /\ UNCHANGED <<id, value, isNegative>>
       ELSE /\ id' = IF isNegative THEN -value ELSE value
            /\ value' = 0
            /\ isNegative' = FALSE
            /\ pc' = "dispatch"
    /\ UNCHANGED <<command, result, p, rx, tx, finger, calls,
                   polls, pending, hostLine, nCmds, nReady>>
    /\ UNCHANGED <<sensor, trip>>

(***************************************************************************)
(* loop(): switch (command)                                                *)
(***************************************************************************)
\* the lower limit taken one too low
ValidId_M(i) == i >= MinId - 1 /\ i <= MaxId

\* the upper limit left out
ValidId_M2(i) == i >= MinId

\* id >= 1 && id <= 127
ValidId(i) == i >= MinId /\ i <= MaxId

\* the switch without its default case: an unknown command is not answered
Dispatch_M ==
    /\ pc = "dispatch"
    /\ IF command = CMD_ENROLL
       THEN IF ValidId(id)
            THEN /\ tx' = SerialPrintln(
                              SerialPrintln(tx, <<"Enrolling ID #">> \o Dec(id)),
                              <<"Place your finger on the sensor...">>)
                 /\ pc' = "e_cap1"
            ELSE /\ tx' = sendSerialResponse(tx, CMD_FAILURE, 0, 0, MsgInvalidId)
                 /\ pc' = "flush"
       ELSE IF command = CMD_VERIFY
       THEN /\ tx' = SerialPrintln(tx, <<"Place finger to verify...">>)
            /\ pc' = "v_image"
       ELSE IF command = CMD_DELETE
       THEN IF ValidId(id)
            THEN /\ pc' = "d_delete"
                 /\ UNCHANGED tx
            ELSE /\ tx' = sendSerialResponse(tx, CMD_FAILURE, 0, 0, MsgInvalidId)
                 /\ pc' = "flush"
       ELSE IF command = CMD_COUNT
       THEN /\ pc' = "c_count"
            /\ UNCHANGED tx
       ELSE /\ pc' = "flush"
            /\ UNCHANGED tx
    /\ p' = NoStatus
    /\ polls' = 0
    /\ UNCHANGED <<command, id, result, value, isNegative, rx, finger, calls,
                   pending, hostLine, nCmds, nReady>>
    /\ UNCHANGED <<sensor, trip>>

Dispatch ==
    /\ pc = "dispatch"
    /\ IF command = CMD_ENROLL
       THEN IF ValidId(id)
            THEN /\ tx' = SerialPrintln(
                              SerialPrintln(tx, <<"Enrolling ID #">> \o Dec(id)),
                              <<"Place your finger on the sensor...">>)
                 /\ pc' = "e_cap1"
            ELSE /\ tx' = sendSerialResponse(tx, CMD_FAILURE, 0, 0, MsgInvalidId)
                 /\ pc' = "flush"
       ELSE IF command = CMD_VERIFY
       THEN /\ tx' = SerialPrintln(tx, <<"Place finger to verify...">>)
            /\ pc' = "v_image"
       ELSE IF command = CMD_DELETE
       THEN IF ValidId(id)
            THEN /\ pc' = "d_delete"
                 /\ UNCHANGED tx
            ELSE /\ tx' = sendSerialResponse(tx, CMD_FAILURE, 0, 0, MsgInvalidId)
                 /\ pc' = "flush"
       ELSE IF command = CMD_COUNT
       THEN /\ pc' = "c_count"
            /\ UNCHANGED tx
       ELSE /\ tx' = sendSerialResponse(tx, CMD_FAILURE, 0, 0, MsgUnknown)
            /\ pc' = "flush"
    /\ p' = NoStatus
    /\ polls' = 0
    /\ UNCHANGED <<command, id, result, value, isNegative, rx, finger, calls,
                   pending, hostLine, nCmds, nReady>>
    /\ UNCHANGED <<sensor, trip>>

\* the loop that empties the receive buffer left out
Flush_M ==
    /\ pc = "flush"
    /\ tx' = sendSerialResponse(tx, CMD_READY, 0, 0, MsgReady)
    /\ nReady' = IF Clean THEN nReady + 1 ELSE nReady
    /\ pc' = "idle"
    /\ p' = NoStatus
    /\ polls' = 0
    /\ UNCHANGED <<command, id, result, value, isNegative, rx, finger, calls,
                   pending, hostLine, nCmds>>
    /\ UNCHANGED <<sensor, trip>>

\* while(Serial.available()) Serial.read(); then the Ready response
Flush ==
    /\ pc = "flush"
    /\ rx' = <<>>
    /\ tx' = sendSerialResponse(tx, CMD_READY, 0, 0, MsgReady)
    /\ nReady' = IF Clean THEN nReady + 1 ELSE nReady
    /\ pc' = "idle"
    /\ p' = NoStatus
    /\ polls' = 0
    /\ UNCHANGED <<command, id, result, value, isNegative, finger, calls,
                   pending, hostLine, nCmds>>
    /\ UNCHANGED <<sensor, trip>>

(***************************************************************************)
(* enrollFinger(id)                                                        *)
(***************************************************************************)
\* p != FINGERPRINT_OK
NotOk(res) == res # FINGERPRINT_OK

\* the default case left out: an error leaves the loop like a taken image
CaptureCase_M(res) ==
    IF res = FINGERPRINT_NOFINGER THEN "retry" ELSE "taken"

\* the switch (p) of the two capture loops
CaptureCase(res) ==
    IF res = FINGERPRINT_OK THEN "taken"
    ELSE IF res = FINGERPRINT_NOFINGER THEN "retry"
    ELSE "fail"

\* the removal loop written like the capture loops: left on any status but OK
RemovalDone_M(res) == res # FINGERPRINT_OK

\* the test of the removal loop, negated: p == FINGERPRINT_NOFINGER
RemovalDone(res) == res = FINGERPRINT_NOFINGER

\* One pass of a capture loop.  A retried poll is recorded (in calls and as
\* the "." it prints) while fewer than MaxPolls retries of this loop have
\* been; later retries happen without being recorded.
EnrollCapture(at, delayPc, convPc) ==
    /\ pc = at
    /\ \E res \in GetImageResults :
         /\ p' = res
         /\ CASE CaptureCase(res) = "taken" ->
                   /\ calls' = Append(calls, Call(at, "getImage", 0, res, <<>>))
                   /\ tx' = SerialPrintln(tx, <<"Image taken">>)
                   /\ polls' = 0
                   /\ pc' = convPc
              [] CaptureCase(res) = "retry" ->
                   /\ IF polls < MaxPolls
                      THEN /\ calls' = Append(calls, Call(at, "getImage", 0, res, <<>>))
                           /\ tx' = SerialPrint(tx, <<".">>)
                           /\ polls' = polls + 1
                      ELSE UNCHANGED <<calls, tx, polls>>
                   /\ pc' = delayPc
              [] OTHER ->
                   /\ calls' = Append(calls, Call(at, "getImage", 0, res, <<>>))
                   /\ tx' = sendSerialResponse(tx, CMD_FAILURE, id, 0, MsgErrImage)
                   /\ polls' = 0
                   /\ pc' = "flush"
    /\ UNCHANGED <<command, id, result, value, isNegative, rx, finger, pending,
                   hostLine, nCmds, nReady>>
    /\ UNCHANGED <<sensor, trip>>

\* delay(500) after FINGERPRINT_NOFINGER in a capture loop; the loop test
\* while (p != FINGERPRINT_OK) then holds and the loop polls again
EnrollCaptureDelay(delayPc, at) ==
    /\ pc = delayPc
    /\ pc' = at
    /\ UNCHANGED <<command, id, result, p, value, isNegative, rx, tx, finger, calls,
                   polls, pending, hostLine, nCmds, nReady>>
    /\ UNCHANGED <<sensor, trip>>

\* the Failure of a conversion sent like those of loop(), with 0 for the id
EnrollConvert_M(at, slot, text, nextPc) ==
    /\ pc = at
    /\ \E res \in Image2TzResults :
         /\ p' = res
         /\ calls' = Append(calls, Call(at, "image2Tz", slot, res, <<>>))
         /\ IF NotOk(res)
            THEN /\ tx' = sendSerialResponse(tx, CMD_FAILURE, 0, 0, MsgErrConvert)
                 /\ pc' = "flush"
            ELSE /\ tx' = SerialPrintln(tx, <<text>>)
                 /\ pc' = nextPc
    /\ polls' = 0
    /\ UNCHANGED <<command, id, result, value, isNegative, rx, finger, pending,
                   hostLine, nCmds, nReady>>
    /\ UNCHANGED <<sensor, trip>>

\* p = finger.image2Tz(slot), and what follows it when it succeeds
EnrollConvert(at, slot, text, nextPc) ==
    /\ pc = at
    /\ \E res \in Image2TzResults :
         /\ p' = res
         /\ calls' = Append(calls, Call(at, "image2Tz", slot, res, <<>>))
         /\ IF NotOk(res)
            THEN /\ tx' = sendSerialResponse(tx, CMD_FAILURE, id, 0, MsgErrConvert)
                 /\ pc' = "flush"
            ELSE /\ tx' = SerialPrintln(tx, <<text>>)
                 /\ pc' = nextPc
    /\ polls' = 0
    /\ UNCHANGED <<command, id, result, value, isNegative, rx, finger, pending,
                   hostLine, nCmds, nReady>>
    /\ UNCHANGED <<sensor, trip>>

EnrollCapture1 == EnrollCapture("e_cap1", "e_cap1_delay", "e_conv1")

EnrollDelay1 == EnrollCaptureDelay("e_cap1_delay", "e_cap1")

\* image2Tz(1); "Remove finger"; delay(2000); p = 0
EnrollConvert1 == EnrollConvert("e_conv1", 1, "Remove finger", "e_remove")

\* p = finger.getImage() in the removal loop; every result is kept in p.
\* A poll that does not end the loop is recorded while fewer than MaxPolls
\* have been.
EnrollRemoval ==
    /\ pc = "e_remove"
    /\ \E res \in GetImageResults :
         /\ p' = res
         /\ IF RemovalDone(res) \/ polls < MaxPolls
            THEN /\ calls' = Append(calls, Call("e_remove", "getImage", 0, res, <<>>))
                 /\ polls' = IF RemovalDone(res) THEN polls ELSE polls + 1
            ELSE UNCHANGED <<calls, polls>>
    /\ pc' = "e_remove_delay"
    /\ UNCHANGED <<command, id, result, value, isNegative, rx, tx, finger, pending,
                   hostLine, nCmds, nReady>>
    /\ UNCHANGED <<sensor, trip>>

\* delay(500) of the removal loop, and the loop test
EnrollRemovalDelay ==
    /\ pc = "e_remove_delay"
    /\ IF RemovalDone(p)
       THEN /\ tx' = SerialPrintln(tx, <<"Place same finger again...">>)
            /\ p' = NoStatus
            /\ polls' = 0
            /\ pc' = "e_cap2"
       ELSE /\ pc' = "e_remove"
            /\ UNCHANGED <<tx, p, polls>>
    /\ UNCHANGED <<command, id, result, value, isNegative, rx, finger, calls,
                   pending, hostLine, nCmds, nReady>>
    /\ UNCHANGED <<sensor, trip>>

EnrollCapture2 == EnrollCapture("e_cap2", "e_cap2_delay", "e_conv2")

EnrollDelay2 == EnrollCaptureDelay("e_cap2_delay", "e_cap2")

\* image2Tz(2); "Creating model..."
EnrollConvert2 == EnrollConvert("e_conv2", 2, "Creating model...", "e_create")

\* the return after the Failure of createModel left out
EnrollCreate_M ==
    /\ pc = "e_create"
    /\ \E res \in CreateModelResults :
         /\ p' = res
         /\ calls' = Append(calls, Call("e_create", "createModel", 0, res, <<>>))
         /\ tx' = SerialPrintln(
                      IF NotOk(res)
                      THEN sendSerialResponse(tx, CMD_FAILURE, id, 0, MsgErrCreate)
                      ELSE tx,
                      <<"Storing model...">>)
         /\ pc' = "e_store"
    /\ UNCHANGED <<command, id, result, value, isNegative, rx, finger, polls,
                   pending, hostLine, nCmds, nReady>>
    /\ UNCHANGED <<sensor, trip>>

\* p = finger.createModel(); "Storing model..."
EnrollCreate ==
    /\ pc = "e_create"
    /\ \E res \in CreateModelResults :
         /\ p' = res
         /\ calls' = Append(calls, Call("e_create", "createModel", 0, res, <<>>))
         /\ IF NotOk(res)
            THEN /\ tx' = sendSerialResponse(tx, CMD_FAILURE, id, 0, MsgErrCreate)
                 /\ pc' = "flush"
            ELSE /\ tx' = SerialPrintln(tx, <<"Storing model...">>)
                 /\ pc' = "e_store"
    /\ UNCHANGED <<command, id, result, value, isNegative, rx, finger, polls,
                   pending, hostLine, nCmds, nReady>>
    /\ UNCHANGED <<sensor, trip>>

\* the return after the Failure left out
StoreResponse_M(o, i, res) ==
    sendSerialResponse(
        IF NotOk(res) THEN sendSerialResponse(o, CMD_FAILURE, i, 0, MsgErrStore) ELSE o,
        CMD_SUCCESS, i, 0, MsgEnrolled)

\* the response that ends enrollFinger after storeModel returned res
StoreResponse(o, i, res) ==
    IF NotOk(res)
    THEN sendSerialResponse(o, CMD_FAILURE, i, 0, MsgErrStore)
    ELSE sendSerialResponse(o, CMD_SUCCESS, i, 0, MsgEnrolled)

\* p = finger.storeModel(id)
EnrollStore ==
    /\ pc = "e_store"
    /\ \E res \in StoreModelResults :
         /\ p' = res
         /\ calls' = Append(calls, Call("e_store", "storeModel", id, res, <<>>))
         /\ sensor' = storeModel(sensor, id, res)
         /\ tx' = StoreResponse(tx, id, res)
    /\ pc' = "flush"
    /\ UNCHANGED <<command, id, result, value, isNegative, rx, finger, polls,
                   pending, hostLine, nCmds, nReady>>
    /\ UNCHANGED trip

(***************************************************************************)
(* getFingerprintID() and the CMD_VERIFY case of loop()                    *)
(***************************************************************************)
\* result > 0 in place of result >= 0
VerifyResponse_M(o, r, conf) ==
    IF r > 0
    THEN sendSerialResponse(o, CMD_SUCCESS, r, conf, MsgMatched)
    ELSE sendSerialResponse(o, CMD_FAILURE, 0, 0, MsgNoMatch)

\* if (result >= 0) Success(result, finger.confidence) else Failure
VerifyResponse(o, r, conf) ==
    IF r >= 0
    THEN sendSerialResponse(o, CMD_SUCCESS, r, conf, MsgMatched)
    ELSE sendSerialResponse(o, CMD_FAILURE, 0, 0, MsgNoMatch)

\* the capture written like those of enrollFinger: polled again while no
\* finger is on the sensor
VerifyImage_M ==
    /\ pc = "v_image"
    /\ \E res \in GetImageResults :
         /\ p' = res
         /\ calls' = Append(calls, Call("v_image", "getImage", 0, res, <<>>))
         /\ IF res = FINGERPRINT_NOFINGER
            THEN /\ tx' = SerialPrint(tx, <<".">>)
                 /\ UNCHANGED <<result, pc>>
            ELSE IF NotOk(res)
            THEN /\ result' = -1
                 /\ tx' = VerifyResponse(SerialPrintln(tx, <<"Error getting image">>),
                                         -1, finger.confidence)
                 /\ pc' = "flush"
            ELSE /\ pc' = "v_conv"
                 /\ UNCHANGED <<result, tx>>
    /\ UNCHANGED <<command, id, value, isNegative, rx, finger, polls, pending,
                   hostLine, nCmds, nReady>>
    /\ UNCHANGED <<sensor, trip>>

\* int p = finger.getImage(); a single attempt
VerifyImage ==
    /\ pc = "v_image"
    /\ \E res \in GetImageResults :
         /\ p' = res
         /\ calls' = Append(calls, Call("v_image", "getImage", 0, res, <<>>))
         /\ IF NotOk(res)
            THEN /\ result' = -1
                 /\ tx' = VerifyResponse(
                              IF res = FINGERPRINT_NOFINGER
                              THEN SerialPrint(tx, <<".">>)
                              ELSE SerialPrintln(tx, <<"Error getting image">>),
                              -1, finger.confidence)
                 /\ pc' = "flush"
            ELSE /\ pc' = "v_conv"
                 /\ UNCHANGED <<result, tx>>
    /\ UNCHANGED <<command, id, value, isNegative, rx, finger, polls, pending,
                   hostLine, nCmds, nReady>>
    /\ UNCHANGED <<sensor, trip>>

\* p = finger.image2Tz(); the slot defaults to 1
VerifyConvert ==
    /\ pc = "v_conv"
    /\ \E res \in Image2TzResults :
         /\ p' = res
         /\ calls' = Append(calls, Call("v_conv", "image2Tz", 1, res, <<>>))
         /\ IF NotOk(res)
            THEN /\ result' = -1
                 /\ tx' = VerifyResponse(
                              SerialPrintln(tx, <<"Error converting image">>),
                              -1, finger.confidence)
                 /\ pc' = "flush"
            ELSE /\ pc' = "v_search"
                 /\ UNCHANGED <<result, tx>>
    /\ UNCHANGED <<command, id, value, isNegative, rx, finger, polls, pending,
                   hostLine, nCmds, nReady>>
    /\ UNCHANGED <<sensor, trip>>

\* the status of the search not looked at: the slot of the reply is returned
SearchResult_M(res, fingerID) == fingerID

\* what getFingerprintID returns after the search returned res
SearchResult(res, fingerID) == IF NotOk(res) THEN -1 ELSE fingerID

\* p = finger.fingerSearch(); the reply sets finger.fingerID and
\* finger.confidence
VerifySearch ==
    /\ pc = "v_search"
    /\ \E res \in FingerSearchResults, reply \in SearchReplies :
         /\ fingerSearch(sensor, res, reply)
         /\ p' = res
         /\ calls' = Append(calls, Call("v_search", "fingerSearch", 0, res, reply))
         /\ finger' = [finger EXCEPT !.fingerID = reply[1], !.confidence = reply[2]]
         /\ result' = SearchResult(res, reply[1])
         /\ tx' = VerifyResponse(
                      IF NotOk(res)
                      THEN SerialPrintln(tx, <<"No match found">>)
                      ELSE SerialPrintln(tx, <<"Found ID #">> \o Dec(reply[1])
                                              \o <<" with confidence ">>
                                              \o Dec(reply[2])),
                      SearchResult(res, reply[1]), reply[2])
    /\ pc' = "flush"
    /\ UNCHANGED <<command, id, value, isNegative, rx, polls, pending, hostLine,
                   nCmds, nReady>>
    /\ UNCHANGED <<sensor, trip>>

(***************************************************************************)
(* deleteFingerprint(id)                                                   *)
(***************************************************************************)
\* the status returned by deleteModel not looked at
DeleteResponse_M(o, i, res) ==
    sendSerialResponse(o, CMD_SUCCESS, i, 0, MsgDeleted(i))

\* if (p == FINGERPRINT_OK) Success else Failure, both naming the id
DeleteResponse(o, i, res) ==
    IF res = FINGERPRINT_OK
    THEN sendSerialResponse(o, CMD_SUCCESS, i, 0, MsgDeleted(i))
    ELSE sendSerialResponse(o, CMD_FAILURE, i, 0, MsgDeleteFailed(i))

DeleteFingerprint ==
    /\ pc = "d_delete"
    /\ \E res \in DeleteModelResults :
         /\ p' = res
         /\ calls' = Append(calls, Call("d_delete", "deleteModel", id, res, <<>>))
         /\ sensor' = deleteModel(sensor, id, res)
         /\ tx' = DeleteResponse(tx, id, res)
    /\ pc' = "flush"
    /\ UNCHANGED <<command, id, result, value, isNegative, rx, finger, polls,
                   pending, hostLine, nCmds, nReady>>
    /\ UNCHANGED trip

(***************************************************************************)
(* The CMD_COUNT case of loop()                                            *)
(***************************************************************************)
\* Success for a positive count and Failure for none, like the other handlers
CountResponse_M(o, n) ==
    sendSerialResponse(o, IF n > 0 THEN CMD_SUCCESS ELSE CMD_FAILURE, n, 0,
                       MsgTemplateCount)

\* sendSerialResponse(CMD_RESPONSE, finger.templateCount, 0, "Template count")
CountResponse(o, n) == sendSerialResponse(o, CMD_RESPONSE, n, 0, MsgTemplateCount)

\* finger.getTemplateCount(): a reply sets finger.templateCount, a lost
\* reply leaves it as it was; the status returned is not looked at
CountTemplates ==
    /\ pc = "c_count"
    /\ \E res \in TemplateCountResults :
         IF res = FINGERPRINT_OK
         THEN \E n \in getTemplateCount(sensor) :
                /\ finger' = [finger EXCEPT !.templateCount = n]
                /\ calls' = Append(calls,
                                   Call("c_count", "getTemplateCount", 0, res, <<n>>))
                /\ tx' = CountResponse(tx, n)
         ELSE /\ calls' = Append(calls,
                                 Call("c_count", "getTemplateCount", 0, res, <<>>))
              /\ tx' = CountResponse(tx, finger.templateCount)
              /\ UNCHANGED finger
    /\ pc' = "flush"
    /\ UNCHANGED <<command, id, result, p, value, isNegative, rx, polls, pending,
                   hostLine, nCmds, nReady>>
    /\ UNCHANGED <<sensor, trip>>

(***************************************************************************)
(* The system                                                              *)
(***************************************************************************)
Init ==
    /\ pc = "setup"
    /\ command = NoCmd
    /\ id = -1
    /\ result = -1
    /\ p = NoStatus
    /\ value = 0
    /\ isNegative = FALSE
    /\ rx = <<>>
    /\ tx = NoOutput
    /\ finger = [fingerID |-> 0, confidence |-> 0, templateCount |-> 0]
    /\ calls = <<>>
    /\ polls = 0
    /\ pending = <<>>
    /\ hostLine = "none"
    /\ nCmds = 0
    /\ nReady = 0
    /\ sensor = AnySensor
    /\ trip = 0

\* the steps of the program
Device ==
    \/ Setup
    \/ LoopRead
    \/ ArgWait
    \/ ParseSkip
    \/ ParseNum
    \/ ParsePeek
    \/ Dispatch
    \/ EnrollCapture1
    \/ EnrollDelay1
    \/ EnrollConvert1
    \/ EnrollRemoval
    \/ EnrollRemovalDelay
    \/ EnrollCapture2
    \/ EnrollDelay2
    \/ EnrollConvert2
    \/ EnrollCreate
    \/ EnrollStore
    \/ VerifyImage
    \/ VerifyConvert
    \/ VerifySearch
    \/ DeleteFingerprint
    \/ CountTemplates
    \/ Flush

Next ==
    \/ HostSend
    \/ Arrive
    \/ Device

Spec == Init /\ [][Next]_vars

\* The processor keeps running the program: a step that can be taken is
\* taken.  Nothing is assumed of the host or of the sensor's answers.
FairSpec == Spec /\ WF_vars(Device)

(***************************************************************************)
(* The same program with a host that takes turns and a sensor that keeps   *)
(* its templates.  The host writes a line only to a device at rest, that   *)
(* is after the Ready response of the line before (README, "Ready for next *)
(* command"); the bytes of the line still arrive one at a time.            *)
(***************************************************************************)
\* the command answered last was command c with the id i, answered with t
Answered(c, i, t) ==
    /\ command = c
    /\ id = i
    /\ Len(tx.resp) >= 1
    /\ tx.resp[1].type = t

\* The round trip as the host sees it when it writes its next line:
\*   0  no slot holds a template of the finger
\*   1  from there, Enroll(5) was answered with Success
\*   2  and right after it Delete(5) was answered with Success
\*   3  anything else
TripAfter ==
    IF trip = 0 /\ Answered(CMD_ENROLL, 5, CMD_SUCCESS) THEN 1
    ELSE IF trip = 1 /\ Answered(CMD_DELETE, 5, CMD_SUCCESS) THEN 2
    ELSE IF sensor.templates = {} THEN 0
    ELSE 3

\* the lines of the host that takes turns: one slot, one id out of range
TurnIdTexts == {<<"5">>, <<"1", "2", "8">>}

TurnLines == {<<c>> \o t \o <<NL>> : c \in {CMD_ENROLL, CMD_DELETE}, t \in TurnIdTexts}
             \cup {<<CMD_VERIFY, NL>>, <<CMD_COUNT, NL>>, <<"Z", NL>>}

HostTurn ==
    /\ AtRest
    /\ \E l \in TurnLines :
         /\ pending' = l
         /\ hostLine' = Head(l)
    /\ nCmds' = 0
    /\ nReady' = 0
    /\ trip' = TripAfter
    /\ UNCHANGED <<pc, command, id, result, p, value, isNegative, rx, tx, finger,
                   calls, polls, sensor>>

StoreInit ==
    /\ pc = "setup"
    /\ command = NoCmd
    /\ id = -1
    /\ result = -1
    /\ p = NoStatus
    /\ value = 0
    /\ isNegative = FALSE
    /\ rx = <<>>
    /\ tx = NoOutput
    /\ finger = [fingerID |-> 0, confidence |-> 0, templateCount |-> 0]
    /\ calls = <<>>
    /\ polls = 0
    /\ pending = <<>>
    /\ hostLine = "none"
    /\ nCmds = 0
    /\ nReady = 0
    /\ sensor = StoringSensor
    /\ trip = 0

StoreNext ==
    \/ HostTurn
    \/ Arrive
    \/ Device

StoreSpec == StoreInit /\ [][StoreNext]_vars

(***************************************************************************)
(* Vocabulary of the properties                                            *)
(***************************************************************************)
\* the handler of the current command has returned
Returned == command # NoCmd /\ pc \in {"flush", "idle"}

\* the current command is being handled: read, and its Ready not yet sent
Busy == pc \notin {"setup", "halt", "idle"}

Terminals == {CMD_SUCCESS, CMD_FAILURE, CMD_RESPONSE}

RespIs(r, t, i, c, m) ==
    r.type = t /\ r.id = i /\ r.confidence = c /\ r.message = m

InIdRange(i) == i \in 1..127

CallIs(c, op, arg, res) == c.op = op /\ c.arg = arg /\ c.res = res

(***************************************************************************)
(* C1: an Enroll or Delete command whose parsed id is outside [1,127]      *)
(* makes no sensor request at any time while it is handled, and its        *)
(* response is Failure with id 0, confidence 0 and the message             *)
(* "Invalid ID. Must be between 1-127".                                    *)
(***************************************************************************)
C1_InvalidIdRejected ==
    (NeedsId(command) /\ ~InIdRange(id)) =>
        /\ calls = <<>>
        /\ Returned => /\ Len(tx.resp) >= 1
                       /\ RespIs(tx.resp[1], CMD_FAILURE, 0, 0, MsgInvalidId)

\* Delete with the id 128 has been answered
C1_Witness ==
    /\ pc = "flush"
    /\ command = CMD_DELETE
    /\ id = 128
    /\ Len(tx.resp) = 1
    /\ tx.resp[1].type = CMD_FAILURE

(***************************************************************************)
(* C2: Enroll emits Success only after the first capture and               *)
(* convertImage(1) returned Ok, a capture then reported NoFingerPresent    *)
(* (the removal) before the second capture, the second capture and         *)
(* convertImage(2) returned Ok, and createModel and storeModel(id)         *)
(* returned Ok.  When a stage fails (a capture wait ends with an error, or *)
(* a conversion, createModel or storeModel returns a status other than     *)
(* Ok), the handler has returned with a Failure and no Success.            *)
(***************************************************************************)
EnrollSucceeded ==
    command = CMD_ENROLL /\ \E i \in DOMAIN tx.resp : tx.resp[i].type = CMD_SUCCESS

\* the requests of a complete enrollment of slot i, in their order
CompleteEnrollment(log, i) ==
    LET n == Len(log)
    IN  /\ n >= 7
        /\ CallIs(log[n], "storeModel", i, FINGERPRINT_OK)
        /\ CallIs(log[n - 1], "createModel", 0, FINGERPRINT_OK)
        /\ CallIs(log[n - 2], "image2Tz", 2, FINGERPRINT_OK)
        /\ CallIs(log[n - 3], "getImage", 0, FINGERPRINT_OK)
        /\ \E j \in 2..(n - 5) :
             /\ CallIs(log[j - 1], "getImage", 0, FINGERPRINT_OK)
             /\ CallIs(log[j], "image2Tz", 1, FINGERPRINT_OK)
             /\ \A k \in 1..(j - 1) : log[k].op = "getImage"
             /\ \E k \in (j + 1)..(n - 4) :
                  CallIs(log[k], "getImage", 0, FINGERPRINT_NOFINGER)
             /\ \A k \in (j + 1)..(n - 3) : log[k].op = "getImage"

\* a request whose answer makes its stage fail
StageFailed(c) ==
    \/ c.op \in {"image2Tz", "createModel", "storeModel"} /\ c.res # FINGERPRINT_OK
    \/ /\ c.op = "getImage"
       /\ c.at \in {"e_cap1", "e_cap2"}
       /\ c.res \notin {FINGERPRINT_OK, FINGERPRINT_NOFINGER}

C2_EnrollSuccessGated ==
    /\ EnrollSucceeded => CompleteEnrollment(calls, id)
    /\ (command = CMD_ENROLL /\ \E i \in DOMAIN calls : StageFailed(calls[i])) =>
          /\ Returned
          /\ Len(tx.resp) >= 1
          /\ tx.resp[1].type = CMD_FAILURE
          /\ \A i \in DOMAIN tx.resp : tx.resp[i].type # CMD_SUCCESS

\* an enrollment has succeeded after a recorded wait for the finger
C2_Witness ==
    /\ pc = "flush"
    /\ EnrollSucceeded
    /\ calls[1].res = FINGERPRINT_NOFINGER

(***************************************************************************)
(* C3: Verify emits Success with the id and confidence the search reply    *)
(* carried exactly when capture, conversion and search all returned Ok;    *)
(* after any other outcome it emits Failure "No match found" with id 0     *)
(* and confidence 0.                                                       *)
(***************************************************************************)
VerifyMatched ==
    /\ Len(calls) = 3
    /\ CallIs(calls[1], "getImage", 0, FINGERPRINT_OK)
    /\ CallIs(calls[2], "image2Tz", 1, FINGERPRINT_OK)
    /\ CallIs(calls[3], "fingerSearch", 0, FINGERPRINT_OK)

C3_VerifyResponse ==
    (command = CMD_VERIFY /\ Returned) =>
        /\ Len(tx.resp) >= 1
        /\ IF VerifyMatched
           THEN RespIs(tx.resp[1], CMD_SUCCESS, calls[3].val[1], calls[3].val[2],
                       MsgMatched)
           ELSE RespIs(tx.resp[1], CMD_FAILURE, 0, 0, MsgNoMatch)

\* a Verify has matched the template in slot 0
C3_Witness ==
    /\ pc = "flush"
    /\ command = CMD_VERIFY
    /\ VerifyMatched
    /\ calls[3].val = <<0, 0>>
    /\ tx.resp[1].type = CMD_SUCCESS

(***************************************************************************)
(* C4: the responses of a command are one terminal response (Success,      *)
(* Failure or Info) and then one Ready: none while the handler runs, the   *)
(* terminal one when it has returned, the Ready after it; and the next     *)
(* command is read only when both have been sent.                          *)
(***************************************************************************)
GroupComplete(o) ==
    /\ Len(o.resp) = 2
    /\ o.resp[1].type \in Terminals
    /\ o.resp[2].type = CMD_READY
    /\ o.resp[1].line < o.resp[2].line
    /\ o.resp[2].line = Len(o.out)
    /\ o.line = <<>>

C4_GroupShape ==
    /\ (Busy /\ pc # "flush") => tx.resp = <<>>
    /\ pc = "flush" => Len(tx.resp) = 1 /\ tx.resp[1].type \in Terminals
    /\ (pc = "idle" /\ command # NoCmd) => GroupComplete(tx)

\* a step that reads a command (the output of a new command starts) is
\* taken with the group before it complete, or with the startup output
C4_ReadAfterReady ==
    ((tx' = NoOutput /\ tx # NoOutput) \/ (pc = "idle" /\ pc' # "idle")) =>
        (pc = "idle" /\ (command = NoCmd \/ GroupComplete(tx)))

C4_OneTerminalThenReady == []C4_GroupShape /\ [][C4_ReadAfterReady]_vars

\* a second command of one line has been answered in full
C4_Witness ==
    /\ pc = "idle"
    /\ nCmds = 2
    /\ nReady = 2
    /\ GroupComplete(tx)

(***************************************************************************)
(* C5: each input line the host sends causes exactly one handler           *)
(* invocation and exactly one Ready, whatever the timing of its bytes:     *)
(* when a line with one of the commands E, V, D, C, written to a device    *)
(* at rest, has been used up and the device is at rest again, one command  *)
(* was read and one Ready was sent.                                        *)
(***************************************************************************)
C5_OneCommandPerLine ==
    (AtRest /\ hostLine \in {CMD_ENROLL, CMD_VERIFY, CMD_DELETE, CMD_COUNT}) =>
        (nCmds = 1 /\ nReady = 1)

(***************************************************************************)
(* C6: every accepted command eventually completes: once a command has     *)
(* been read the dispatcher eventually waits for the next one, whatever    *)
(* the sensor answers.                                                     *)
(***************************************************************************)
C6_EveryCommandCompletes == Busy ~> (pc = "idle")

(***************************************************************************)
(* C7: NoFingerPresent in a capture-wait loop is the only outcome that is  *)
(* retried: after any other answer that is not Ok no further sensor        *)
(* request is made, the handler has returned, and exactly one Failure has  *)
(* been sent.  (The count request, whose status the program never looks    *)
(* at, is left aside.)                                                     *)
(***************************************************************************)
Retried(c) ==
    /\ c.op = "getImage"
    /\ c.res = FINGERPRINT_NOFINGER
    /\ c.at \in {"e_cap1", "e_remove", "e_cap2"}

C7_ErrorsAbort ==
    \A i \in DOMAIN calls :
        (/\ calls[i].res # FINGERPRINT_OK
         /\ ~Retried(calls[i])
         /\ calls[i].op # "getTemplateCount") =>
            /\ i = Len(calls)
            /\ Returned
            /\ Cardinality({k \in DOMAIN tx.resp : tx.resp[k].type = CMD_FAILURE}) = 1
            /\ tx.resp[1].type = CMD_FAILURE

(***************************************************************************)
(* C8: every response is one complete output line                          *)
(* R,<tag>,<id>,<confidence>,<message> that begins with R, with the tag    *)
(* one of S, F, Y, R, the id and the confidence in decimal, and a message  *)
(* that holds neither a comma nor a line break.                            *)
(***************************************************************************)
ResponseLine(r) ==
    <<"R", ",", r.type, ",">> \o Dec(r.id) \o <<",">> \o Dec(r.confidence)
        \o <<",">> \o r.message

C8_ResponseLines ==
    \A i \in DOMAIN tx.resp :
        LET r == tx.resp[i]
        IN  /\ r.line \in DOMAIN tx.out
            /\ tx.out[r.line] = ResponseLine(r)
            /\ r.type \in {CMD_SUCCESS, CMD_FAILURE, CMD_READY, CMD_RESPONSE}
            /\ \A k \in DOMAIN r.message : r.message[k] \notin {",", NL}

(***************************************************************************)
(* C9: Count makes the one request getTemplateCount and answers with the   *)
(* Info tag R (never S or F), the sensor object's template count in the    *)
(* id field (the count the reply carried, when there was a reply),         *)
(* confidence 0 and the message "Template count", for a count of zero as   *)
(* for a positive one.                                                     *)
(***************************************************************************)
C9_CountIsInfo ==
    (command = CMD_COUNT /\ Returned) =>
        /\ Len(calls) = 1
        /\ calls[1].op = "getTemplateCount"
        /\ Len(tx.resp) >= 1
        /\ RespIs(tx.resp[1], "R", finger.templateCount, 0, MsgTemplateCount)
        /\ calls[1].res = FINGERPRINT_OK => tx.resp[1].id = calls[1].val[1]

\* a Count has been answered with the count 0 the sensor reported
C9_Witness ==
    /\ pc = "flush"
    /\ command = CMD_COUNT
    /\ calls[1].res = FINGERPRINT_OK
    /\ calls[1].val = <<0>>
    /\ tx.resp[1].id = 0

(***************************************************************************)
(* C10: Delete with an id in [1,127] makes exactly one sensor request,     *)
(* deleteModel(id), with none before it; Ok is answered with Success and   *)
(* any other status with Failure, both carrying the id and a message that  *)
(* names it.                                                               *)
(***************************************************************************)
C10_DeleteOnce ==
    (command = CMD_DELETE /\ InIdRange(id)) =>
        /\ ~Returned => calls = <<>>
        /\ Returned =>
             /\ Len(calls) = 1
             /\ calls[1].op = "deleteModel"
             /\ calls[1].arg = id
             /\ Len(tx.resp) >= 1
             /\ IF calls[1].res = FINGERPRINT_OK
                THEN RespIs(tx.resp[1], CMD_SUCCESS, id, 0, MsgDeleted(id))
                ELSE RespIs(tx.resp[1], CMD_FAILURE, id, 0, MsgDeleteFailed(id))

\* Delete of slot 127 has been refused by the sensor
C10_Witness ==
    /\ pc = "flush"
    /\ command = CMD_DELETE
    /\ id = 127
    /\ calls[1].res = FINGERPRINT_DELETEFAIL
    /\ tx.resp[1].type = CMD_FAILURE

(***************************************************************************)
(* C11: a command character other than E, V, D, C (a stray line terminator *)
(* or a digit read as a command included) is answered with Failure, id 0,  *)
(* confidence 0 and the message "Unknown command"; no sensor request is    *)
(* made for it, nothing but the answer and the flush is done, and the      *)
(* Ready response follows the Failure.                                     *)
(***************************************************************************)
IsUnknown(c) ==
    c \notin {NoCmd, CMD_ENROLL, CMD_VERIFY, CMD_DELETE, CMD_COUNT}

C11_UnknownCommand ==
    IsUnknown(command) =>
        /\ calls = <<>>
        /\ pc \in {"dispatch", "flush", "idle"}
        /\ Returned => /\ Len(tx.resp) >= 1
                       /\ RespIs(tx.resp[1], CMD_FAILURE, 0, 0, MsgUnknown)
        /\ pc = "idle" => /\ Len(tx.resp) = 2
                          /\ RespIs(tx.resp[2], CMD_READY, 0, 0, MsgReady)

\* a line terminator that arrived late has been read as a command and answered
C11_Witness ==
    /\ pc = "idle"
    /\ command = NL
    /\ Len(tx.resp) = 2
    /\ tx.resp[1].message = MsgUnknown

(***************************************************************************)
(* C12: when setup() has found the sensor, the startup output holds        *)
(* exactly one response, Ready with id 0, confidence 0 and the message     *)
(* "Fingerprint system ready"; until then nothing is answered, no command  *)
(* is read and no sensor request is made; the first command is read only   *)
(* after that response; and the message is never sent again.  (When the    *)
(* sensor is not found the program halts in setup(): it sends no response  *)
(* and never reads a command.)                                             *)
(***************************************************************************)
StartupReadySent ==
    /\ Len(tx.resp) = 1
    /\ RespIs(tx.resp[1], CMD_READY, 0, 0, MsgSystemReady)
    /\ tx.resp[1].line \in DOMAIN tx.out

C12_Startup ==
    /\ pc \in {"setup", "halt"} => (command = NoCmd /\ calls = <<>> /\ tx.resp = <<>>)
    /\ (command = NoCmd /\ pc \notin {"setup", "halt"}) =>
           (pc = "idle" /\ StartupReadySent /\ calls = <<>>)
    /\ command # NoCmd =>
           \A i \in DOMAIN tx.resp : tx.resp[i].message # MsgSystemReady

\* a step that reads the first command, or makes the first sensor request,
\* is taken after the startup response
C12_ReadAfterStartup ==
    (command = NoCmd /\ (command' # NoCmd \/ calls' # <<>>)) =>
        (pc = "idle" /\ StartupReadySent)

C12_StartupReady == []C12_Startup /\ [][C12_ReadAfterStartup]_vars

\* setup() has returned and the device waits for its first command
C12_Witness ==
    /\ pc = "idle"
    /\ command = NoCmd
    /\ StartupReadySent

(***************************************************************************)
(* C13: with a sensor that keeps one template per slot and matches the     *)
(* finger only against the templates it holds: when no slot held a         *)
(* template of the finger, Enroll(5) was answered with Success, Delete(5)  *)
(* right after it was answered with Success, and the next command is       *)
(* Verify with the same finger, then the Verify is answered with Failure   *)
(* "No match found", and a search it makes is not answered with a match.   *)
(***************************************************************************)
C13_RoundTrip ==
    (trip = 2 /\ command = CMD_VERIFY) =>
        /\ sensor.templates = {}
        /\ \A i \in DOMAIN calls :
             calls[i].op = "fingerSearch" => calls[i].res = FINGERPRINT_NOTFOUND
        /\ Returned => /\ Len(tx.resp) >= 1
                       /\ RespIs(tx.resp[1], CMD_FAILURE, 0, 0, MsgNoMatch)

\* the Verify of the round trip has searched and has been answered
C13_Witness ==
    /\ trip = 2
    /\ command = CMD_VERIFY
    /\ pc = "flush"
    /\ Len(calls) = 3
    /\ calls[3].op = "fingerSearch"
    /\ tx.resp[1].type = CMD_FAILURE

(***************************************************************************)
(* C14: the sensor requests of an Enroll(id) are made in the fixed order   *)
(* capture polls up to Ok, convertImage(1), capture polls up to            *)
(* NoFingerPresent, capture polls up to Ok, convertImage(2), createModel,  *)
(* storeModel(id): each stage is entered only when the stage before it     *)
(* returned the outcome that advances, slot 1 is converted before slot 2,  *)
(* storeModel is requested at most once and with the requested id, and     *)
(* nothing is requested after a stage has failed or after storeModel.      *)
(***************************************************************************)
\* the stage an enrollment of slot i is in after the request c, made in stage st
EnrollStageAfter(st, c, i) ==
    LET ok == c.res = FINGERPRINT_OK
        none == c.res = FINGERPRINT_NOFINGER
    IN  CASE st = "AwaitFirstCapture" /\ c.op = "getImage" ->
               IF ok THEN "ConvertFirst"
               ELSE IF none THEN "AwaitFirstCapture" ELSE "Failed"
          [] st = "ConvertFirst" /\ c.op = "image2Tz" /\ c.arg = 1 ->
               IF ok THEN "AwaitRemoval" ELSE "Failed"
          [] st = "AwaitRemoval" /\ c.op = "getImage" ->
               IF none THEN "AwaitSecondCapture" ELSE "AwaitRemoval"
          [] st = "AwaitSecondCapture" /\ c.op = "getImage" ->
               IF ok THEN "ConvertSecond"
               ELSE IF none THEN "AwaitSecondCapture" ELSE "Failed"
          [] st = "ConvertSecond" /\ c.op = "image2Tz" /\ c.arg = 2 ->
               IF ok THEN "CreateModel" ELSE "Failed"
          [] st = "CreateModel" /\ c.op = "createModel" ->
               IF ok THEN "StoreModel" ELSE "Failed"
          [] st = "StoreModel" /\ c.op = "storeModel" /\ c.arg = i ->
               IF ok THEN "Succeeded" ELSE "Failed"
          [] OTHER -> "OutOfOrder"

\* the stage after the first n requests of the log
RECURSIVE EnrollStage(_, _, _)
EnrollStage(log, n, i) ==
    IF n = 0 THEN "AwaitFirstCapture"
    ELSE EnrollStageAfter(EnrollStage(log, n - 1, i), log[n], i)

C14_EnrollOrder ==
    command = CMD_ENROLL =>
        /\ EnrollStage(calls, Len(calls), id) # "OutOfOrder"
        /\ Cardinality({k \in DOMAIN calls : calls[k].op = "storeModel"}) <= 1

\* an enrollment has come to storeModel after a retried capture poll and a
\* removal poll that found the finger still there
C14_Witness ==
    /\ pc = "flush"
    /\ command = CMD_ENROLL
    /\ Len(calls) >= 9
    /\ calls[Len(calls)].op = "storeModel"
    /\ calls[1].res = FINGERPRINT_NOFINGER
    /\ \E k \in DOMAIN calls : calls[k].at = "e_remove" /\ calls[k].res = FINGERPRINT_OK

(***************************************************************************)
(* C15: when a stage of Enroll(id) fails, that request is the last one of  *)
(* the invocation, the handler has returned, and it has sent exactly one   *)
(* response: Failure with the requested id, confidence 0 and the message   *)
(* of the failed stage (taking image, converting image, creating model,    *)
(* storing model); nothing is done again before a new command is read.     *)
(* And an Enroll with a valid id answers Failure only when its last        *)
(* request is a failed stage.                                              *)
(***************************************************************************)
StageMessage(c) ==
    CASE c.op = "getImage" -> MsgErrImage
      [] c.op = "image2Tz" -> MsgErrConvert
      [] c.op = "createModel" -> MsgErrCreate
      [] c.op = "storeModel" -> MsgErrStore

\* the responses of the handler: those sent before the Ready of loop()
HandlerResponses ==
    IF pc = "idle" THEN SubSeq(tx.resp, 1, Len(tx.resp) - 1) ELSE tx.resp

C15_EnrollFailure ==
    (command = CMD_ENROLL /\ InIdRange(id)) =>
        /\ \A k \in DOMAIN calls :
             StageFailed(calls[k]) =>
                 /\ k = Len(calls)
                 /\ Returned
                 /\ HandlerResponses =
                      <<[type |-> CMD_FAILURE, id |-> id, confidence |-> 0,
                         message |-> StageMessage(calls[k]),
                         line |-> tx.resp[1].line]>>
        /\ (Returned /\ tx.resp[1].type = CMD_FAILURE) =>
               (calls # <<>> /\ StageFailed(calls[Len(calls)]))

\* the enrollment of slot 127 has failed in its second conversion
C15_Witness ==
    /\ pc = "flush"
    /\ command = CMD_ENROLL
    /\ id = 127
    /\ calls[Len(calls)].op = "image2Tz"
    /\ calls[Len(calls)].arg = 2
    /\ StageFailed(calls[Len(calls)])
    /\ tx.resp[1].message = MsgErrConvert

(***************************************************************************)
(* C16: Verify makes one capture attempt: its requests are getImage once,  *)
(* then image2Tz only after the capture returned Ok, then fingerSearch     *)
(* only after the conversion returned Ok, three at most, NoFingerPresent   *)
(* is not polled again; and the handler always comes to its end: every     *)
(* step of the program in a Verify moves it on towards the Ready response, *)
(* with at most one request made in a step, and a step can always be       *)
(* taken.                                                                  *)
(***************************************************************************)
C16_VerifyShape ==
    command = CMD_VERIFY =>
        /\ Len(calls) <= 3
        /\ Cardinality({k \in DOMAIN calls : calls[k].op = "getImage"}) <= 1
        /\ Len(calls) >= 1 => calls[1].op = "getImage"
        /\ Len(calls) >= 2 => /\ calls[1].res = FINGERPRINT_OK
                              /\ calls[2].op = "image2Tz"
        /\ Len(calls) >= 3 => /\ calls[2].res = FINGERPRINT_OK
                              /\ calls[3].op = "fingerSearch"
        /\ Returned => Len(calls) >= 1
        /\ Busy => ENABLED Device

\* how many steps of a Verify are left at most from the position at
VerifyStepsLeft(at) ==
    CASE at = "dispatch" -> 5
      [] at = "v_image" -> 4
      [] at = "v_conv" -> 3
      [] at = "v_search" -> 2
      [] at = "flush" -> 1
      [] OTHER -> 0

\* a step of the program in a Verify
C16_VerifyAdvances ==
    (command = CMD_VERIFY /\ Busy /\ <<pc, calls, tx>> # <<pc', calls', tx'>>) =>
        /\ VerifyStepsLeft(pc') < VerifyStepsLeft(pc)
        /\ Len(calls') <= Len(calls) + 1

C16_VerifySingleAttempt == []C16_VerifyShape /\ [][C16_VerifyAdvances]_vars

\* a Verify has ended after its one capture found no finger
C16_Witness ==
    /\ pc = "flush"
    /\ command = CMD_VERIFY
    /\ Len(calls) = 1
    /\ calls[1].res = FINGERPRINT_NOFINGER

(***************************************************************************)
(* C17: an Enroll or Delete whose argument is missing is treated as having *)
(* an invalid id.  When the wait for the argument ends with no byte        *)
(* received, or no digit is among the bytes of the line that are left, and *)
(* the host writes nothing more, the id the program comes to test is       *)
(* outside [1,127]; from there the only answer is the Invalid-ID Failure   *)
(* with id 0 and confidence 0, then the flush, and no sensor request is    *)
(* made on the way.                                                        *)
(***************************************************************************)
NoDigit(bytes) == \A k \in DOMAIN bytes : ~IsDigit(bytes[k])

\* the id is being read and no digit is left to come
ArgMissing ==
    /\ NeedsId(command)
    /\ pc \in {"delay100", "parse_skip"}
    /\ NoDigit(rx \o pending)
    /\ calls = <<>>

\* the program is about to test an id that is no slot
Rejecting ==
    /\ NeedsId(command)
    /\ pc = "dispatch"
    /\ ~InIdRange(id)
    /\ calls = <<>>

\* the Invalid-ID Failure has been sent, and nothing else
Rejected ==
    /\ NeedsId(command)
    /\ pc = "flush"
    /\ calls = <<>>
    /\ Len(tx.resp) = 1
    /\ RespIs(tx.resp[1], CMD_FAILURE, 0, 0, MsgInvalidId)

C17_Step ==
    LET waitFindsNothing == pc = "delay100" /\ rx = <<>> /\ pc' # pc /\ NeedsId(command)
        hostWrites == pending = <<>> /\ pending' # <<>>
    IN  /\ waitFindsNothing => Rejecting'
        /\ (ArgMissing /\ ~hostWrites) => (ArgMissing' \/ Rejecting')
        /\ Rejecting => (Rejecting' \/ Rejected')
        /\ Rejected => (Rejected' \/ (pc' = "idle" /\ calls' = <<>> /\ rx' = <<>>))

C17_MissingArgument == [][C17_Step]_vars

\* the line "E" with nothing but its terminator, written to a device at
\* rest, has been used up and answered
C17_Witness ==
    /\ Rejected
    /\ command = CMD_ENROLL
    /\ id = 0
    /\ Clean
    /\ nCmds = 1
    /\ rx = <<>>
    /\ pending = <<>>

(***************************************************************************)
(* C18: bytes that arrive while a handler runs wait in the receive buffer: *)
(* from the switch of loop() up to the Ready response the program takes    *)
(* nothing out of the buffer and keeps its command and its id, so that it  *)
(* reads no command, and the requests and responses it makes are those of  *)
(* the command it is handling; and when that stretch ends, it ends with    *)
(* the device waiting for the next command and the buffer empty, all the   *)
(* bytes that arrived having been discarded unread.                        *)
(***************************************************************************)
\* the switch of loop(), the handler it calls, and the flush
Handling ==
    pc \notin {"setup", "halt", "idle", "delay100",
               "parse_skip", "parse_num", "parse_peek"}

IsPrefix(s, t) == Len(s) <= Len(t) /\ SubSeq(t, 1, Len(s)) = s

C18_Step ==
    /\ (Handling /\ Handling') =>
          /\ IsPrefix(rx, rx')
          /\ command' = command
          /\ id' = id
          /\ IsPrefix(calls, calls')
          /\ IsPrefix(tx.resp, tx'.resp)
    /\ (Handling /\ ~Handling') =>
          /\ pc' = "idle"
          /\ rx' = <<>>
          /\ command' = command
          /\ calls' = calls
          /\ GroupComplete(tx')

C18_LateInputDiscarded == [][C18_Step]_vars

\* a whole Verify line has arrived during an enrollment, which has succeeded
C18_Witness ==
    /\ pc = "flush"
    /\ EnrollSucceeded
    /\ Len(rx) >= 2
    /\ rx[Len(rx) - 1] = CMD_VERIFY
    /\ rx[Len(rx)] = NL

(***************************************************************************)
(* C19: whatever commands have been sent, every storeModel and every       *)
(* deleteModel request is made with an id in [1,127].                      *)
(***************************************************************************)
C19_SlotIdsInRange ==
    \A k \in DOMAIN calls :
        calls[k].op \in {"storeModel", "deleteModel"} =>
            (calls[k].arg >= 1 /\ calls[k].arg <= 127)

\* a template has been stored in the last slot
C19_Witness ==
    /\ calls # <<>>
    /\ CallIs(calls[Len(calls)], "storeModel", 127, FINGERPRINT_OK)

(***************************************************************************)
(* C20: with a sensor that keeps its templates, the set of stored          *)
(* templates changes only in the step that requests storeModel(id) in an   *)
(* Enroll with id in [1,127] that has come to the StoreModel stage, and in *)
(* the step that requests deleteModel(id) in a Delete with id in [1,127];  *)
(* storeModel and deleteModel are requested nowhere else: not by Verify,   *)
(* Count, an unknown command, an Enroll or Delete with an invalid id, nor  *)
(* by an Enroll that failed before the StoreModel stage.                   *)
(***************************************************************************)
\* the request k of the log of the command c with the id i is one the
\* frame allows
FramedRequest(log, k, c, i) ==
    CASE log[k].op = "storeModel" ->
           /\ c = CMD_ENROLL
           /\ InIdRange(i)
           /\ log[k].arg = i
           /\ EnrollStage(log, k - 1, i) = "StoreModel"
      [] log[k].op = "deleteModel" ->
           /\ c = CMD_DELETE
           /\ InIdRange(i)
           /\ log[k].arg = i
      [] OTHER -> TRUE

C20_Requests == \A k \in DOMAIN calls : FramedRequest(calls, k, command, id)

C20_Step ==
    sensor.templates' # sensor.templates =>
        /\ calls' # calls
        /\ calls' # <<>>
        /\ calls'[Len(calls')].op \in {"storeModel", "deleteModel"}
        /\ calls'[Len(calls')].res = FINGERPRINT_OK
        /\ FramedRequest(calls', Len(calls'), command', id')
        /\ sensor.templates' =
             IF calls'[Len(calls')].op = "storeModel"
             THEN sensor.templates \cup {id}
             ELSE sensor.templates \ {id}

C20_TemplatesFrame == []C20_Requests /\ [][C20_Step]_vars

\* slot 5 holds a template, and a further Enroll of slot 5 has failed in
\* createModel and left it there
C20_Witness ==
    /\ pc = "flush"
    /\ command = CMD_ENROLL
    /\ id = 5
    /\ calls[Len(calls)].op = "createModel"
    /\ calls[Len(calls)].res # FINGERPRINT_OK
    /\ sensor.stores
    /\ sensor.templates = {5}

====
